---- MODULE Spec2Model ----
(***************************************************************************)
(* Model of pyanaconda/modules/storage/bootloader/systemd.py: the SYSTEMD  *)
(* boot loader class (write_device_map, write_config_console,              *)
(* write_config, install_targets, installbootmgr, write).                  *)
(*                                                                         *)
(* Text is modelled as a sequence of pieces: every piece is either one     *)
(* boot argument token or the text the code writes in one go; Text(s)      *)
(* concatenates the pieces into the string the file holds.                 *)
(***************************************************************************)
EXTENDS Integers, Sequences, FiniteSets, TLC

VARIABLES
    boot_args,        \* self.boot_args._arguments: sequence of tokens
    console,          \* self.console
    console_options,  \* self.console_options
    disks,            \* self.disks: list of devices
    stage1_device,    \* self.stage1_device
    stage2_device,    \* self.stage2_device
    fs,               \* files below conf.target.system_root: path -> pieces
    pc,               \* position inside write(), "idle" outside of it
    pending,          \* exception raised by the try block of write()
    trace,            \* steps write() has completed or attempted so far
    entry_args,       \* boot_args when the running/last write() was entered
    entry_fs,         \* fs when the running/last call was entered
    entry_disks,      \* disks when the running/last call was entered
    execs,            \* external programs started by the running/last call
    added,            \* every key passed to boot_args.add(), in call order
    last,             \* the last top-level call that ended
    result,           \* what that call raised (NoError: it returned)
    calls             \* number of top-level calls made so far

vars == <<boot_args, console, console_options, disks, stage1_device,
          stage2_device, fs, pc, pending, trace, entry_args, entry_fs,
          entry_disks, execs, added, last, result, calls>>

----------------------------------------------------------------------------
\* Bounds of the model.

\* Top-level calls (add, console setup, write_config_console, write_config,
\* write) made on one boot loader object.
MaxCalls == 3

----------------------------------------------------------------------------
\* Exceptions.

NoError == [type |-> "None", msg |-> ""]

BootLoaderError(msg) == [type |-> "BootLoaderError", msg |-> msg]

OSError(what) == [type |-> "OSError", msg |-> what]

AttributeError(what) == [type |-> "AttributeError", msg |-> what]

----------------------------------------------------------------------------
\* Text.

RECURSIVE Text(_)
Text(s) == IF s = <<>> THEN "" ELSE Head(s) \o Text(Tail(s))

\* sep.join(items), as pieces.
RECURSIVE join(_, _)
join(sep, items) ==
    IF Len(items) = 0 THEN <<>>
    ELSE IF Len(items) = 1 THEN <<items[1]>>
    ELSE <<items[1], sep>> \o join(sep, Tail(items))

Range(s) == {s[i] : i \in DOMAIN s}

Count(s, x) == Cardinality({i \in DOMAIN s : s[i] = x})

----------------------------------------------------------------------------
\* Inputs of the program: boot arguments, console settings, storage devices,
\* results of the external programs and I/O faults.

\* The root-device argument write_config appends (line 178, without the
\* leading blank of the literal).
RootArg == "root=/dev/mapper/fedora_fedora-root"

\* Tokens the configuration assembly may add to the accumulator.
Tokens == {"ro", RootArg}

Consoles == {"", "ttyS0"}

ConsoleOptions == {"", "115200n8"}

\* Storage devices, owned by the storage subsystem.
Devices == {"sda", "sdb", "sda1", "md0", "nfs"}

\* device.is_disk
is_disk(d) == d \in {"sda", "sdb"}

\* device.disks: the disks a device is built on, in order.
device_disks(d) ==
    CASE d = "sda"  -> <<"sda">>
      [] d = "sdb"  -> <<"sdb">>
      [] d = "sda1" -> <<"sda">>
      [] d = "md0"  -> <<"sda", "sdb">>
      [] d = "nfs"  -> <<>>

\* What util.execWithRedirect can do when the child ends: return its exit
\* status, or raise because the program could not be started.
ExecResults ==
    {[spawned |-> TRUE, rc |-> 0], [spawned |-> TRUE, rc |-> 1],
     [spawned |-> FALSE, rc |-> 0]}

\* Where the file I/O of write_config can fail.
ConfigFaults ==
    {"none", "open_loader", "write_loader", "open_cmdline", "write_cmdline"}

\* Where write_device_map can fail: the device_map_file attribute lookup
\* (the property is commented out in this class), or os.rename.
DeviceMapFaults == {"none", "device_map_file", "rename"}

----------------------------------------------------------------------------
\* Paths below conf.target.system_root.

LoaderConfPath == "/boot/efi/loader/loader.conf"

CmdlinePath == "/etc/kernel/cmdline"

DeviceMapPath == "/boot/efi/loader/device.map"

BackupSuffix == ".anacbak"

\* The text write_config puts into loader.conf, one piece per write().
LoaderConfText == <<"timeout 3\n", "#console-mode keep\n">>

\* fs with path p (re)created holding data.
WriteFile(f, p, data) ==
    [q \in (DOMAIN f) \cup {p} |-> IF q = p THEN data ELSE f[q]]

\* os.rename(src, dst)
Rename(f, src, dst) ==
    [q \in ((DOMAIN f) \ {src}) \cup {dst} |-> IF q = dst THEN f[src] ELSE f[q]]

----------------------------------------------------------------------------
\* The boot-arg accumulator (self.boot_args, class Arguments of base.py).

\* boot_args.add(key): append key unless it is already present.
add(arguments, key) ==
    IF key \in Range(arguments) THEN arguments ELSE Append(arguments, key)

\* The rendered arguments: " ".join(list(self.boot_args._arguments))
render(arguments) == join(" ", arguments)

----------------------------------------------------------------------------
\* SYSTEMD.write_config_console: the accumulator after the call on
\* accumulator `arguments`.

console_arg ==
    IF console_options # ""
    THEN ("console=" \o console) \o ("," \o console_options)
    ELSE "console=" \o console

\* The keys write_config_console passes to boot_args.add (lines 140-146).
console_keys == IF console = "" THEN <<>> ELSE <<console_arg>>

write_config_console_append(arguments) ==
    IF console = "" THEN arguments ELSE Append(arguments, console_arg)

write_config_console(arguments) ==
    IF console = "" THEN arguments ELSE add(arguments, console_arg)

----------------------------------------------------------------------------
\* SYSTEMD.write_config: the accumulator, the files and the exception
\* (NoError: none) after one call, with I/O fault `fault` and the merge
\* script ending as `script`.

\* What is written to etc/kernel/cmdline (lines 175-179).
cmdline_text(arguments) == render(arguments) \o <<" ", RootArg>>

\* The external programs (lines 185 and 257).
MergeScript == "/usr/sbin/updateloaderentries.sh"

Bootctl == "bootctl"

\* The failure of util.execWithRedirect + "if rc: raise" (lines 184-191).
merge_script(script) ==
    IF ~script.spawned THEN OSError(MergeScript)
    ELSE IF script.rc # 0
         THEN BootLoaderError("failed to write boot loader configuration")
         ELSE NoError

write_config_append(fault, script) ==
    LET args1 == write_config_console(boot_args)
        old(p) == IF p \in DOMAIN fs THEN fs[p] ELSE <<>>
        fs1   == WriteFile(fs, LoaderConfPath,
                           old(LoaderConfPath) \o LoaderConfText)
        fs2   == WriteFile(fs1, CmdlinePath,
                           old(CmdlinePath) \o cmdline_text(args1))
    IN  IF fault = "none"
        THEN [boot_args |-> args1, fs |-> fs2, ran |-> <<MergeScript>>,
              exc |-> merge_script(script)]
        ELSE [boot_args |-> args1, fs |-> fs, ran |-> <<>>,
              exc |-> OSError(fault)]

write_config_merge_always(fault, script) ==
    LET args1 == write_config_console(boot_args)
        fs1   == WriteFile(fs, LoaderConfPath, LoaderConfText)
        fs2   == WriteFile(fs1, CmdlinePath, cmdline_text(args1))
    IN  CASE fault = "open_loader" ->
               [boot_args |-> args1, fs |-> fs, ran |-> <<MergeScript>>,
                exc |-> OSError(LoaderConfPath)]
          [] fault \in {"write_loader", "open_cmdline", "write_cmdline"} ->
               [boot_args |-> args1, fs |-> fs1, ran |-> <<MergeScript>>,
                exc |-> OSError(CmdlinePath)]
          [] OTHER ->
               [boot_args |-> args1, fs |-> fs2, ran |-> <<MergeScript>>,
                exc |-> merge_script(script)]

write_config_wrap_io(fault, script) ==
    LET args1 == write_config_console(boot_args)
        fs1   == WriteFile(fs, LoaderConfPath, LoaderConfText)
        fs2   == WriteFile(fs1, CmdlinePath, cmdline_text(args1))
    IN  IF fault = "none"
        THEN [boot_args |-> args1, fs |-> fs2, ran |-> <<MergeScript>>,
              exc |-> merge_script(script)]
        ELSE [boot_args |-> args1, fs |-> fs, ran |-> <<>>,
              exc |-> BootLoaderError(
                          "failed to write boot loader configuration")]

write_config(fault, script) ==
    LET args1 == write_config_console(boot_args)                    \* 153
        fs0   == WriteFile(fs, LoaderConfPath, <<>>)                \* 162
        fs1   == WriteFile(fs, LoaderConfPath, LoaderConfText)      \* 163-167
        fs1t  == WriteFile(fs1, CmdlinePath, <<>>)                  \* 174
        fs2   == WriteFile(fs1, CmdlinePath, cmdline_text(args1))   \* 175-180
    IN  CASE fault = "open_loader" ->
               [boot_args |-> args1, fs |-> fs, ran |-> <<>>,
                exc |-> OSError(LoaderConfPath)]
          [] fault = "write_loader" ->
               [boot_args |-> args1, fs |-> fs0, ran |-> <<>>,
                exc |-> OSError(LoaderConfPath)]
          [] fault = "open_cmdline" ->
               [boot_args |-> args1, fs |-> fs1, ran |-> <<>>,
                exc |-> OSError(CmdlinePath)]
          [] fault = "write_cmdline" ->
               [boot_args |-> args1, fs |-> fs1t, ran |-> <<>>,
                exc |-> OSError(CmdlinePath)]
          [] OTHER ->                                               \* 184-191
               [boot_args |-> args1, fs |-> fs2, ran |-> <<MergeScript>>,
                exc |-> merge_script(script)]

----------------------------------------------------------------------------
\* SYSTEMD.write_device_map: self.disks, the files and the exception after
\* one call with fault `fault`.

\* lines 124-130: devices aliases self.disks and is appended to in place.
RECURSIVE append_missing(_, _)
append_missing(devices, more) ==
    IF more = <<>> THEN devices
    ELSE append_missing(
             IF Head(more) \in Range(devices) THEN devices
             ELSE Append(devices, Head(more)),
             Tail(more))

write_device_map_store_filtered(fault) ==
    LET readable == DeviceMapPath \in DOMAIN fs
        fs1 == IF readable
               THEN Rename(fs, DeviceMapPath, DeviceMapPath \o BackupSuffix)
               ELSE fs
        devices == append_missing(disks,
                       <<stage1_device>> \o device_disks(stage2_device))
    IN  CASE fault = "device_map_file" ->
               [disks |-> disks, fs |-> fs,
                exc |-> AttributeError("device_map_file")]
          [] fault = "rename" /\ readable ->
               [disks |-> disks, fs |-> fs, exc |-> OSError(DeviceMapPath)]
          [] OTHER ->
               [disks |-> SelectSeq(devices, is_disk), fs |-> fs1,
                exc |-> NoError]

write_device_map(fault) ==
    LET readable == DeviceMapPath \in DOMAIN fs                     \* 121
        fs1 == IF readable
               THEN Rename(fs, DeviceMapPath, DeviceMapPath \o BackupSuffix)
               ELSE fs                                              \* 122
        devices == append_missing(disks,
                       <<stage1_device>> \o device_disks(stage2_device))
    IN  CASE fault = "device_map_file" ->
               [disks |-> disks, fs |-> fs,
                exc |-> AttributeError("device_map_file")]
          [] fault = "rename" /\ readable ->
               [disks |-> disks, fs |-> fs, exc |-> OSError(DeviceMapPath)]
          [] OTHER ->
               [disks |-> devices, fs |-> fs1, exc |-> NoError]

\* line 132: the local list left after the is_disk filter.
filtered_devices(devices) == SelectSeq(devices, is_disk)

----------------------------------------------------------------------------
\* SYSTEMD.install_targets

install_targets == <<  <<stage1_device, stage2_device>>  >>

----------------------------------------------------------------------------
\* SYSTEMD.installbootmgr: the exception (NoError: none) when bootctl ends
\* as `bootctl`.

installbootmgr_ignore_rc(bootctl) ==
    IF ~bootctl.spawned THEN OSError(Bootctl) ELSE NoError

installbootmgr(bootctl) ==
    IF ~bootctl.spawned THEN OSError(Bootctl)
    ELSE IF bootctl.rc # 0 THEN BootLoaderError("boot loader install failed")
         ELSE NoError

\* self.install(), the install step of write(): the Installer Invoker.
install(bootctl) == installbootmgr(bootctl)

----------------------------------------------------------------------------
\* SYSTEMD.write: the statements of the try block (lines 267-273) and of
\* the finally block (lines 276-278).

TryLines == {"L267", "L268", "L269", "L271", "L272", "L273"}

FinallyLines == {"L276", "L277", "L278"}

Stmt_config_first(line) ==
    CASE line = "L267" -> "write_device_map"
      [] line = "L268" -> "format.sync"
      [] line = "L269" -> "os.sync"
      [] line = "L271" -> "write_config"
      [] line = "L272" -> "os.sync"
      [] line = "L273" -> "format.sync"
      [] line = "L276" -> "install"
      [] line = "L277" -> "os.sync"
      [] line = "L278" -> "format.sync"
      [] OTHER -> "none"

Stmt(line) ==
    CASE line = "L267" -> "write_device_map"
      [] line = "L268" -> "format.sync"
      [] line = "L269" -> "os.sync"
      [] line = "L271" -> "install"
      [] line = "L272" -> "os.sync"
      [] line = "L273" -> "format.sync"
      [] line = "L276" -> "write_config"
      [] line = "L277" -> "os.sync"
      [] line = "L278" -> "format.sync"
      [] OTHER -> "none"

Succ_no_final_sync(line) ==
    CASE line = "L267" -> "L268"
      [] line = "L268" -> "L269"
      [] line = "L269" -> "L271"
      [] line = "L271" -> "L272"
      [] line = "L272" -> "L273"
      [] line = "L273" -> "L276"
      [] OTHER -> "end"

Succ_no_post_install_sync(line) ==
    CASE line = "L267" -> "L268"
      [] line = "L268" -> "L269"
      [] line = "L269" -> "L271"
      [] line = "L271" -> "L276"
      [] line = "L276" -> "L277"
      [] line = "L277" -> "L278"
      [] OTHER -> "end"

Succ(line) ==
    CASE line = "L267" -> "L268"
      [] line = "L268" -> "L269"
      [] line = "L269" -> "L271"
      [] line = "L271" -> "L272"
      [] line = "L272" -> "L273"
      [] line = "L273" -> "L276"
      [] line = "L276" -> "L277"
      [] line = "L277" -> "L278"
      [] OTHER -> "end"

\* One entry of trace: statement `op` ran and raised exc (NoError: returned).
Event(op, exc) == [op |-> op, exc |-> exc]

\* write() ends: it returns (e = NoError) or raises e.
Leave(e) ==
    /\ pc' = "idle"
    /\ pending' = NoError
    /\ last' = "write"
    /\ result' = e

\* The statement at pc returned.
Continue_no_reraise ==
    IF Succ(pc) = "end"
    THEN Leave(NoError)
    ELSE /\ pc' = Succ(pc)
         /\ UNCHANGED <<pending, last, result>>

Continue ==
    IF Succ(pc) = "end"
    THEN Leave(pending)          \* end of finally: re-raise what try raised
    ELSE /\ pc' = Succ(pc)
         /\ UNCHANGED <<pending, last, result>>

\* The statement at pc raised e.
Raise_no_finally(e) == Leave(e)

Raise_keep_first(e) ==
    IF pc \in TryLines
    THEN /\ pc' = "L276"
         /\ pending' = e
         /\ UNCHANGED <<last, result>>
    ELSE Leave(IF pending # NoError THEN pending ELSE e)

Raise_swallow_try(e) ==
    IF pc \in TryLines
    THEN /\ pc' = "L276"
         /\ pending' = NoError
         /\ UNCHANGED <<last, result>>
    ELSE Leave(e)

Raise_retry_install(e) ==
    IF pc = "L271" /\ execs = <<>>
    THEN /\ pc' = pc
         /\ UNCHANGED <<pending, last, result>>
    ELSE IF pc \in TryLines
    THEN /\ pc' = "L276"
         /\ pending' = e
         /\ UNCHANGED <<last, result>>
    ELSE Leave(e)

Raise_resume_next(e) ==
    IF pc \in TryLines
    THEN /\ pc' = Succ(pc)
         /\ pending' = e
         /\ UNCHANGED <<last, result>>
    ELSE Leave(e)

Raise(e) ==
    IF pc \in TryLines
    THEN /\ pc' = "L276"         \* the finally block runs with e pending
         /\ pending' = e
         /\ UNCHANGED <<last, result>>
    ELSE Leave(e)                \* raised in finally: e replaces pending

\* The statement at pc ended with exception e (NoError: it returned).
Outcome(op, e) ==
    /\ trace' = Append(trace, Event(op, e))
    /\ IF e = NoError THEN Continue ELSE Raise(e)

----------------------------------------------------------------------------
\* Top-level calls made between writes (configuration assembly).

Idle == pc = "idle" /\ calls < MaxCalls

Called(name, e) ==
    /\ calls' = calls + 1
    /\ last' = name
    /\ result' = e
    /\ trace' = <<>>
    /\ entry_fs' = fs
    /\ entry_disks' = disks
    /\ UNCHANGED <<pc, pending, entry_args>>

\* self.boot_args.add(t)
Add(t) ==
    /\ Idle
    /\ boot_args' = add(boot_args, t)
    /\ added' = Append(added, t)
    /\ execs' = <<>>
    /\ Called("add", NoError)
    /\ UNCHANGED <<console, console_options, disks, stage1_device,
                   stage2_device, fs>>

\* self.console = c; self.console_options = o
SetConsole(c, o) ==
    /\ Idle
    /\ <<c, o>> # <<console, console_options>>
    /\ console' = c
    /\ console_options' = o
    /\ execs' = <<>>
    /\ Called("set_console", NoError)
    /\ UNCHANGED <<boot_args, added, disks, stage1_device, stage2_device, fs>>

\* self.write_config_console(None)
CallWriteConfigConsole ==
    /\ Idle
    /\ boot_args' = write_config_console(boot_args)
    /\ added' = added \o console_keys
    /\ execs' = <<>>
    /\ Called("write_config_console", NoError)
    /\ UNCHANGED <<console, console_options, disks, stage1_device,
                   stage2_device, fs>>

\* self.write_config()
CallWriteConfig(fault, script) ==
    /\ Idle
    /\ LET r == write_config(fault, script)
       IN  /\ boot_args' = r.boot_args
           /\ fs' = r.fs
           /\ added' = added \o console_keys
           /\ execs' = r.ran
           /\ Called("write_config", r.exc)
    /\ UNCHANGED <<console, console_options, disks, stage1_device,
                   stage2_device>>

\* self.install_targets (a property: it reads the devices and changes nothing)
CallInstallTargets ==
    /\ Idle
    /\ last # "install_targets"
    /\ execs' = <<>>
    /\ Called("install_targets", NoError)
    /\ UNCHANGED <<boot_args, added, console, console_options, disks,
                   stage1_device, stage2_device, fs>>

----------------------------------------------------------------------------
\* self.write(), statement by statement.

WriteEnter ==
    /\ Idle
    /\ pc' = "L267"
    /\ calls' = calls + 1
    /\ pending' = NoError
    /\ trace' = <<>>
    /\ entry_args' = boot_args
    /\ entry_fs' = fs
    /\ entry_disks' = disks
    /\ execs' = <<>>
    /\ UNCHANGED <<boot_args, console, console_options, disks, stage1_device,
                   stage2_device, fs, added, last, result>>

\* line 267
StepWriteDeviceMap(fault) ==
    /\ Stmt(pc) = "write_device_map"
    /\ LET r == write_device_map(fault)
       IN  /\ disks' = r.disks
           /\ fs' = r.fs
           /\ Outcome("write_device_map", r.exc)
    /\ UNCHANGED <<boot_args, console, console_options, stage1_device,
                   stage2_device, entry_args, entry_fs, entry_disks, execs,
                   added, calls>>

\* lines 268, 273, 278: self.stage2_device.format.sync(root=...) flushes
\* the file system of the stage2 device and reports nothing to the caller
StepFormatSync ==
    /\ Stmt(pc) = "format.sync"
    /\ Outcome("format.sync", NoError)
    /\ UNCHANGED <<boot_args, console, console_options, disks, stage1_device,
                   stage2_device, fs, entry_args, entry_fs, entry_disks,
                   execs, added, calls>>

\* lines 269, 272, 277: os.sync() always returns
StepOsSync ==
    /\ Stmt(pc) = "os.sync"
    /\ Outcome("os.sync", NoError)
    /\ UNCHANGED <<boot_args, console, console_options, disks, stage1_device,
                   stage2_device, fs, entry_args, entry_fs, entry_disks,
                   execs, added, calls>>

\* line 271: the child ends and self.install() returns or raises
StepInstall(bootctl) ==
    /\ Stmt(pc) = "install"
    /\ execs' = Append(execs, Bootctl)
    /\ Outcome("install", install(bootctl))
    /\ UNCHANGED <<boot_args, console, console_options, disks, stage1_device,
                   stage2_device, fs, entry_args, entry_fs, entry_disks,
                   added, calls>>

\* line 271: the child never ends; execWithRedirect has no timeout
InstallBlocks ==
    /\ Stmt(pc) = "install"
    /\ pc' = "blocked"
    /\ execs' = Append(execs, Bootctl)
    /\ UNCHANGED <<boot_args, console, console_options, disks, stage1_device,
                   stage2_device, fs, pending, trace, entry_args, entry_fs,
                   entry_disks, added, last, result, calls>>

\* line 276
StepWriteConfig(fault, script) ==
    /\ Stmt(pc) = "write_config"
    /\ LET r == write_config(fault, script)
       IN  /\ boot_args' = r.boot_args
           /\ fs' = r.fs
           /\ added' = added \o console_keys
           /\ execs' = execs \o r.ran
           /\ Outcome("write_config", r.exc)
    /\ UNCHANGED <<console, console_options, disks, stage1_device,
                   stage2_device, entry_args, entry_fs, entry_disks, calls>>

----------------------------------------------------------------------------
\* The state after construction and before write(): nothing accumulated, no
\* console; the caller has chosen the devices; the target root holds older
\* files or none.

OldLoaderConf == <<"timeout 10\n", "default old\n">>

OldCmdline == <<"quiet", " ", RootArg, "\n">>

OldDeviceMap == <<"(hd0) /dev/sda\n">>

InitialFiles ==
    {[p \in {LoaderConfPath} |-> OldLoaderConf],
     [p \in {LoaderConfPath, CmdlinePath} |->
         IF p = LoaderConfPath THEN OldLoaderConf ELSE OldCmdline],
     [p \in {LoaderConfPath, CmdlinePath, DeviceMapPath} |->
         IF p = LoaderConfPath THEN OldLoaderConf
         ELSE IF p = CmdlinePath THEN OldCmdline ELSE OldDeviceMap]}

InitialStorage ==
    {[stage1 |-> "sda1", stage2 |-> "sda1", disks |-> <<"sda">>],
     [stage1 |-> "sda",  stage2 |-> "md0",  disks |-> <<>>],
     [stage1 |-> "sda1", stage2 |-> "md0",  disks |-> <<"sdb">>],
     [stage1 |-> "sda1", stage2 |-> "nfs",  disks |-> <<>>]}

Init ==
    /\ boot_args = <<>>
    /\ console = ""
    /\ console_options = ""
    /\ \E st \in InitialStorage :
           /\ disks = st.disks
           /\ stage1_device = st.stage1
           /\ stage2_device = st.stage2
    /\ fs \in InitialFiles
    /\ pc = "idle"
    /\ pending = NoError
    /\ trace = <<>>
    /\ entry_args = <<>>
    /\ entry_fs = fs
    /\ entry_disks = disks
    /\ execs = <<>>
    /\ added = <<>>
    /\ last = "none"
    /\ result = NoError
    /\ calls = 0

Next ==
    \/ \E t \in Tokens : Add(t)
    \/ \E c \in Consoles, o \in ConsoleOptions : SetConsole(c, o)
    \/ CallWriteConfigConsole
    \/ \E f \in ConfigFaults, x \in ExecResults : CallWriteConfig(f, x)
    \/ CallInstallTargets
    \/ WriteEnter
    \/ \E f \in DeviceMapFaults : StepWriteDeviceMap(f)
    \/ StepFormatSync
    \/ StepOsSync
    \/ \E x \in ExecResults : StepInstall(x)
    \/ InstallBlocks
    \/ \E f \in ConfigFaults, x \in ExecResults : StepWriteConfig(f, x)

Spec == Init /\ [][Next]_vars

\* A statement of write() that can run does run: the interpreter executes the
\* next statement as soon as the previous call has returned or raised. The
\* install step either ends (StepInstall) or hangs (InstallBlocks).
WriteStep ==
    \/ \E f \in DeviceMapFaults : StepWriteDeviceMap(f)
    \/ StepFormatSync
    \/ StepOsSync
    \/ \E x \in ExecResults : StepInstall(x)
    \/ InstallBlocks
    \/ \E f \in ConfigFaults, x \in ExecResults : StepWriteConfig(f, x)

FairSpec == Spec /\ WF_vars(WriteStep)

----------------------------------------------------------------------------
\* Vocabulary of the properties.

\* write() has returned or raised, and nothing was called since.
WriteEnded == pc = "idle" /\ last = "write"

\* Positions of trace at which statement op ran.
At(op) == {i \in DOMAIN trace : trace[i].op = op}

Raised(i) == trace[i].exc # NoError

Returned(i) == trace[i].exc = NoError

\* A flush of the stage2 device and a global flush both completed at
\* positions lo..hi of trace.
FlushPair(lo, hi) ==
    /\ \E a \in lo..hi : a \in DOMAIN trace /\ trace[a] = Event("format.sync", NoError)
    /\ \E b \in lo..hi : b \in DOMAIN trace /\ trace[b] = Event("os.sync", NoError)

InstallFailed == BootLoaderError("boot loader install failed")

TraceOps == [i \in DOMAIN trace |-> trace[i].op]

----------------------------------------------------------------------------
\* C1: whichever statement of the try block of write() raises, or if none
\* does, write_config has run exactly once when write() returns or raises
\* (and never more than once while write() runs).
C1_WriteConfigExactlyOnce ==
    /\ Cardinality(At("write_config")) <= 1
    /\ WriteEnded => Cardinality(At("write_config")) = 1

\* write() ended after its first statement, write_device_map, raised.
C1_Witness ==
    /\ WriteEnded
    /\ trace # <<>>
    /\ trace[1].op = "write_device_map"
    /\ Raised(1)
    /\ At("install") = {}
    /\ At("write_config") # {}

\* C2: when the installer exits non-zero and write_config then returns,
\* loader.conf and etc/kernel/cmdline hold what write_config writes when
\* write() ends, and write() raises the installation failure.
C2_InstallFailureRaisedAfterConfig ==
    ( /\ WriteEnded
      /\ Event("install", InstallFailed) \in Range(trace)
      /\ Event("write_config", NoError) \in Range(trace) )
    => /\ LoaderConfPath \in DOMAIN fs
       /\ Text(fs[LoaderConfPath]) = "timeout 3\n#console-mode keep\n"
       /\ CmdlinePath \in DOMAIN fs
       /\ Text(fs[CmdlinePath]) = (Text(join(" ", boot_args)) \o " ") \o RootArg
       /\ result = InstallFailed

C2_Witness ==
    /\ WriteEnded
    /\ Event("install", InstallFailed) \in Range(trace)
    /\ Event("write_config", NoError) \in Range(trace)
    /\ result = InstallFailed

\* C3 as claimed: on every path of write() through the install step,
\* write_config runs and a global flush and a stage2 flush complete after
\* it before write() ends, also when write_config raises.
C3_FinalSyncOnEveryPath ==
    (WriteEnded /\ At("install") # {})
    => \E i \in At("write_config") : FlushPair(i + 1, Len(trace))

\* C3 amended: on every path of write() through the install step,
\* write_config runs; when it returns, os.sync and then the stage2 flush
\* complete after it before write() ends; when it raises, write() raises
\* that error at once and no flush follows.
C3_FinalSyncWhenConfigReturns ==
    (WriteEnded /\ At("install") # {})
    => \E i \in At("write_config") :
          /\ Returned(i) =>
                SubSeq(trace, i + 1, Len(trace)) =
                    <<Event("os.sync", NoError), Event("format.sync", NoError)>>
          /\ Raised(i) => i = Len(trace) /\ result = trace[i].exc

\* The installer failed, write_config returned and both flushes followed.
C3_Witness ==
    /\ WriteEnded
    /\ \E i \in At("install") : Raised(i)
    /\ \E i \in At("write_config") :
          Returned(i) /\ FlushPair(i + 1, Len(trace))

\* C4: when the install step and write_config both raise within one
\* write(), write() raises the error of write_config and not the error of
\* the install step.
C4_ConfigFailureMasksInstallFailure ==
    WriteEnded =>
        \A i \in At("install"), j \in At("write_config") :
            (Raised(i) /\ Raised(j)) =>
                /\ result = trace[j].exc
                /\ result # trace[i].exc

C4_Witness ==
    /\ WriteEnded
    /\ \E i \in At("install"), j \in At("write_config") :
          /\ trace[i].exc = InstallFailed
          /\ Raised(j)
          /\ result = trace[j].exc

\* C5 as claimed, for the install step: in every execution of write() both
\* flushes complete before the install step and again between the install
\* step and write_config, so the two are never adjacent, also when the
\* install step fails.
C5_FlushesBracketEveryStep ==
    /\ \A i \in At("install") : FlushPair(1, i - 1)
    /\ \A i \in At("install"), j \in At("write_config") :
          i < j => FlushPair(i + 1, j - 1)

\* C5 amended: both flushes complete before the install step is started;
\* when the install step returns, both complete again before write_config;
\* when write_config returns, both complete again before write() ends.
\* When the install step raises, write_config is the next statement run,
\* with no flush between them; when write_config raises, no flush follows.
C5_FlushesBracketReturningSteps ==
    /\ \A i \in At("install") : FlushPair(1, i - 1)
    /\ \A i \in At("install"), j \in At("write_config") :
          (Returned(i) /\ i < j) => FlushPair(i + 1, j - 1)
    /\ \A i \in At("install") :
          (Raised(i) /\ i < Len(trace)) => trace[i + 1].op = "write_config"
    /\ \A j \in At("write_config") : Raised(j) => j = Len(trace)
    /\ WriteEnded =>
          \A j \in At("write_config") :
              Returned(j) => FlushPair(j + 1, Len(trace))

\* The installer ran after both flushes and raised, write_config followed
\* it directly and returned, and both flushes completed after it.
C5_Witness ==
    /\ WriteEnded
    /\ \E i \in At("install") :
          /\ FlushPair(1, i - 1)
          /\ Raised(i)
          /\ i + 1 \in At("write_config")
          /\ Returned(i + 1)
          /\ FlushPair(i + 2, Len(trace))

\* C6: when no statement of write() raises, the statements run once each
\* in the order device map, flushes, installer, flushes, write_config,
\* flushes, and write() returns; the installer never runs after
\* write_config.
C6_OrderWhenNothingFails ==
    /\ (WriteEnded /\ \A i \in DOMAIN trace : Returned(i))
       => /\ TraceOps = <<"write_device_map", "format.sync", "os.sync",
                          "install", "os.sync", "format.sync",
                          "write_config", "os.sync", "format.sync">>
          /\ result = NoError
    /\ \A i \in At("write_config"), j \in At("install") : j < i

C6_Witness ==
    /\ WriteEnded
    /\ result = NoError
    /\ Len(trace) = 9
    /\ \A i \in DOMAIN trace : Returned(i)

----------------------------------------------------------------------------
\* Vocabulary of the properties about write_config and the accumulator.

\* The latest write_config call, made directly or by write(), returned,
\* and nothing was called since.
ConfigWritten ==
    \/ pc = "idle" /\ last = "write_config" /\ result = NoError
    \/ WriteEnded /\ Event("write_config", NoError) \in Range(trace)

\* write_config_console has run in the latest call, and nothing was called
\* since.
ConsoleWritten ==
    \/ pc = "idle" /\ last \in {"write_config", "write_config_console"}
    \/ WriteEnded

\* s without the later occurrences of its elements.
RECURSIVE FirstOccurrences(_)
FirstOccurrences(s) ==
    IF s = <<>> THEN <<>>
    ELSE LET init == FirstOccurrences(SubSeq(s, 1, Len(s) - 1))
             x == s[Len(s)]
         IN  IF x \in Range(init) THEN init ELSE Append(init, x)

----------------------------------------------------------------------------
\* C7 as claimed: when the accumulator is empty and no console is
\* configured, a write_config call that returns leaves exactly the
\* root-device argument in etc/kernel/cmdline, with no leading blank.
C7_EmptyArgsGiveBareRootArg ==
    (ConfigWritten /\ console = "" /\ boot_args = <<>>)
    => /\ CmdlinePath \in DOMAIN fs
       /\ Text(fs[CmdlinePath]) = RootArg

\* C8 as claimed: after a write_config call that returned, loader.conf is
\* the fixed two-line text and etc/kernel/cmdline is the rendered boot
\* arguments, one blank and the root-device argument, which occurs exactly
\* once in the file.
C8_RootArgOccursOnce ==
    ConfigWritten
    => /\ LoaderConfPath \in DOMAIN fs
       /\ Text(fs[LoaderConfPath]) = "timeout 3\n#console-mode keep\n"
       /\ CmdlinePath \in DOMAIN fs
       /\ Text(fs[CmdlinePath]) = (Text(join(" ", boot_args)) \o " ") \o RootArg
       /\ Count(fs[CmdlinePath], RootArg) = 1

\* C8 amended: after a write_config call that returned, whatever the files
\* held before, loader.conf is the fixed two-line text and
\* etc/kernel/cmdline is the rendered boot arguments, one blank and the
\* root-device argument; write_config appends that argument exactly once,
\* as the last token, so it occurs once more often than in the accumulator
\* (exactly once when the accumulator does not hold it).
C8_RootArgAppendedOnce ==
    ConfigWritten
    => /\ LoaderConfPath \in DOMAIN fs
       /\ Text(fs[LoaderConfPath]) = "timeout 3\n#console-mode keep\n"
       /\ CmdlinePath \in DOMAIN fs
       /\ Text(fs[CmdlinePath]) = (Text(join(" ", boot_args)) \o " ") \o RootArg
       /\ fs[CmdlinePath][Len(fs[CmdlinePath])] = RootArg
       /\ Count(fs[CmdlinePath], RootArg) = Count(boot_args, RootArg) + 1

\* write_config returned with the root-device argument already in the
\* accumulator: the file holds it twice.
C8_Witness ==
    /\ pc = "idle"
    /\ last = "write_config"
    /\ result = NoError
    /\ RootArg \in Range(boot_args)
    /\ Count(fs[CmdlinePath], RootArg) = 2

\* C9: the accumulator holds the keys passed to add() once each, in the
\* order of their first insertion, and so do the rendered arguments; after
\* write_config_console or write_config has run with a console configured,
\* the console=<dev>[,<options>] token occurs exactly once in them.
C9_NoDuplicateTokens ==
    /\ boot_args = FirstOccurrences(added)
    /\ \A t \in Range(added) : Count(render(boot_args), t) = 1
    /\ (ConsoleWritten /\ console # "")
       => Count(render(boot_args), console_arg) = 1

\* The console token was added at least twice and a plain token as well.
C9_Witness ==
    /\ ConsoleWritten
    /\ console # ""
    /\ Count(added, console_arg) >= 2
    /\ Len(boot_args) < Len(added)

\* C10 as claimed, for a write() that returns: write() leaves the
\* accumulator as it found it, also when a console is configured whose
\* token the accumulator does not hold yet.
C10_WriteLeavesArgsUnchanged ==
    (WriteEnded /\ result = NoError) => boot_args = entry_args

----------------------------------------------------------------------------
\* Vocabulary of the properties about the devices and the device map.

BackupPath == DeviceMapPath \o BackupSuffix

\* write_device_map, the first statement of the running/last write(), has
\* returned.
DeviceMapStepReturned ==
    /\ trace # <<>>
    /\ trace[1] = Event("write_device_map", NoError)

\* The stage1 devices of the install targets.
TargetStage1s == {install_targets[t][1] : t \in DOMAIN install_targets}

----------------------------------------------------------------------------
\* C11 as claimed: the first install target is (stage1_device,
\* stage2_device); when stage1 is a disk, every disk backing stage2 is the
\* stage1 of some target; when stage1 is a partition, the primary target is
\* the only one; no target occurs twice.
C11_RedundantTargets ==
    (pc = "idle" /\ last = "install_targets")
    => /\ install_targets[1] = <<stage1_device, stage2_device>>
       /\ is_disk(stage1_device) =>
              \A d \in Range(device_disks(stage2_device)) : d \in TargetStage1s
       /\ ~is_disk(stage1_device) => Len(install_targets) = 1
       /\ \A t \in Range(install_targets) : Count(install_targets, t) = 1

\* C12 as claimed: when a readable device map exists and write_device_map
\* returns, the backup file holds the old map, and the active path holds a
\* map whenever a disk is left after the is_disk filter (it is absent only
\* when none is left).
C12_NewMapAtActivePath ==
    (DeviceMapStepReturned /\ DeviceMapPath \in DOMAIN entry_fs)
    => /\ BackupPath \in DOMAIN fs
       /\ fs[BackupPath] = entry_fs[DeviceMapPath]
       /\ filtered_devices(disks) # <<>> => DeviceMapPath \in DOMAIN fs
       /\ DeviceMapPath \notin DOMAIN fs => filtered_devices(disks) = <<>>

----------------------------------------------------------------------------
\* Vocabulary of the properties about the errors of write().

ConfigFailed == BootLoaderError("failed to write boot loader configuration")

WriteFailed == WriteEnded /\ result # NoError

\* Positions of trace at which a flush ran.
AtSync == At("os.sync") \cup At("format.sync")

----------------------------------------------------------------------------
\* C13 as claimed, for a write() whose device-map step returned: every
\* failure that write() propagates from the install step or from
\* write_config is a BootLoaderError.
C13_OnlyBootLoaderErrorEscapes ==
    ( /\ WriteFailed
      /\ DeviceMapStepReturned
      /\ \E i \in At("install") \cup At("write_config") : trace[i].exc = result )
    => result.type = "BootLoaderError"

\* C13 amended: write() converts no exception: what it propagates is the
\* exception one of its statements raised. It is a BootLoaderError only
\* for a non-zero exit of the installer ("boot loader install failed") or
\* of the merge script ("failed to write boot loader configuration"),
\* after that program was started; an open/write I/O error of a
\* configuration file escapes from write_config as the OSError it is.
C13_ErrorsEscapeUnconverted ==
    /\ WriteFailed =>
          /\ \E i \in DOMAIN trace : trace[i].exc = result
          /\ result.type = "BootLoaderError" <=>
                 result \in {InstallFailed, ConfigFailed}
          /\ result = InstallFailed => Bootctl \in Range(execs)
          /\ result = ConfigFailed => MergeScript \in Range(execs)
    /\ \A i \in At("write_config") :
          MergeScript \notin Range(execs) =>
              trace[i].exc \in {OSError(LoaderConfPath), OSError(CmdlinePath)}

\* write() ended with the OSError of a configuration file, the merge
\* script not started.
C13_Witness ==
    /\ WriteFailed
    /\ DeviceMapStepReturned
    /\ result \in {OSError(LoaderConfPath), OSError(CmdlinePath)}
    /\ MergeScript \notin Range(execs)

----------------------------------------------------------------------------
----------------------------------------------------------------------------
\* The exceptions of the write_config calls of the running/last call.
ConfigExcs ==
    {trace[i].exc : i \in At("write_config")}
        \cup (IF pc = "idle" /\ last = "write_config" THEN {result} ELSE {})

FilesAsWritten ==
    /\ LoaderConfPath \in DOMAIN fs
    /\ Text(fs[LoaderConfPath]) = "timeout 3\n#console-mode keep\n"
    /\ CmdlinePath \in DOMAIN fs
    /\ Text(fs[CmdlinePath]) = (Text(join(" ", boot_args)) \o " ") \o RootArg

\* C16: the merge script is started at most once per write_config call and
\* only when loader.conf and etc/kernel/cmdline have been written in that
\* call: never after a file I/O error; its non-zero exit raises "failed to
\* write boot loader configuration", which the install step never raises,
\* and leaves both files as written.
C16_MergeScriptAfterBothFiles ==
    /\ Count(execs, MergeScript) <= 1
    /\ MergeScript \in Range(execs) => FilesAsWritten
    /\ ConfigExcs \cap {OSError(LoaderConfPath), OSError(CmdlinePath)} # {}
           => MergeScript \notin Range(execs)
    /\ ConfigFailed \in ConfigExcs
           => MergeScript \in Range(execs) /\ FilesAsWritten
    /\ \A i \in At("install") : trace[i].exc # ConfigFailed

\* The merge script exited non-zero in a direct write_config call.
C16_Witness ==
    /\ pc = "idle"
    /\ last = "write_config"
    /\ result = ConfigFailed
    /\ execs = <<MergeScript>>
    /\ FilesAsWritten

----------------------------------------------------------------------------
Running == pc \in TryLines \cup FinallyLines

\* C17 as claimed: when write_device_map has returned and no disk-type
\* device remains after the filter, the file system is as it was when
\* write() was entered.
C17_EmptyFilterLeavesFilesAlone ==
    ( /\ DeviceMapStepReturned
      /\ Len(trace) = 1
      /\ filtered_devices(disks) = <<>> )
    => fs = entry_fs

----------------------------------------------------------------------------
\* C18: a running write() reaches a terminal outcome unless the installer
\* hangs; every statement that ends adds one entry to the at most nine of
\* trace; the installer and the merge script are each started at most once;
\* once the installer hangs write() stays blocked for ever, has not ended
\* and has not run write_config.
C18_TerminatesUnlessInstallerHangs ==
    /\ [](/\ Len(trace) <= 9
          /\ Count(execs, Bootctl) <= 1
          /\ Count(execs, MergeScript) <= 1
          /\ Cardinality(At("install")) <= 1
          /\ pc = "blocked" =>
                /\ At("write_config") = {}
                /\ At("install") = {}
                /\ MergeScript \notin Range(execs)
                /\ execs = <<Bootctl>>)
    /\ [][ /\ pc = "blocked" => pc' = "blocked"
           /\ Running =>
                \/ pc' = "blocked"
                \/ trace' = Append(trace, trace'[Len(trace')])
       ]_vars
    /\ Running ~> (WriteEnded \/ pc = "blocked")

\* write() ended after its nine statements, installer and merge script
\* started once each.
C18_Witness ==
    /\ WriteEnded
    /\ Len(trace) = 9
    /\ execs = <<Bootctl, MergeScript>>

----------------------------------------------------------------------------
PreInstall ==
    <<Event("write_device_map", NoError), Event("format.sync", NoError),
      Event("os.sync", NoError)>>

\* C19: the installer is started only as the fourth statement, after
\* write_device_map, the stage2 flush and the global flush have returned;
\* when one of these three raises, the installer is never started and
\* write_config is the next statement run.
C19_InstallOnlyAfterMapAndFlushes ==
    /\ \A i \in At("install") : i = 4
    /\ Bootctl \in Range(execs) =>
           Len(trace) >= 3 /\ SubSeq(trace, 1, 3) = PreInstall
    /\ \A i \in DOMAIN trace :
           (i <= 3 /\ Raised(i) /\ \A j \in 1..i : trace[j].op # "write_config") =>
               /\ At("install") = {}
               /\ Bootctl \notin Range(execs)
               /\ pc # "blocked"
               /\ Len(trace) > i => trace[i + 1].op = "write_config"
               /\ Len(trace) = i => pc = "L276"
               /\ WriteEnded => At("write_config") # {}

\* write_device_map raised, the installer was not started and write_config
\* wrote both files and returned.
C19_Witness ==
    /\ WriteEnded
    /\ Len(trace) >= 2
    /\ Raised(1)
    /\ trace[2] = Event("write_config", NoError)
    /\ execs = <<MergeScript>>
    /\ FilesAsWritten

----------------------------------------------------------------------------
NoDuplicates(s) == \A i, j \in DOMAIN s : s[i] = s[j] => i = j

\* The devices write_device_map looks for in the list (lines 125-130).
MapDevices == <<stage1_device>> \o device_disks(stage2_device)

\* C20: after write_device_map has returned, the stored disks list is the
\* list of entry extended at its end by stage1_device and the disks of
\* stage2_device that it lacked: old elements keep their places, nothing is
\* added twice, stage1_device is in it also when it is no disk, a list that
\* already held the devices is unchanged, and a further call would change
\* nothing.
C20_DisksExtendedInPlace ==
    DeviceMapStepReturned =>
        /\ Len(disks) >= Len(entry_disks)
        /\ SubSeq(disks, 1, Len(entry_disks)) = entry_disks
        /\ Range(disks) = Range(entry_disks) \cup Range(MapDevices)
        /\ NoDuplicates(entry_disks) => NoDuplicates(disks)
        /\ stage1_device \in Range(disks)
        /\ Range(MapDevices) \subseteq Range(entry_disks) => disks = entry_disks
        /\ append_missing(disks, MapDevices) = disks
        /\ Len(filtered_devices(disks)) <= Len(disks)

\* A partition was appended as stage1_device to a list that held a disk.
C20_Witness ==
    /\ DeviceMapStepReturned
    /\ ~is_disk(stage1_device)
    /\ entry_disks # <<>>
    /\ stage1_device \notin Range(entry_disks)
    /\ disks[Len(entry_disks) + 1] = stage1_device
    /\ filtered_devices(disks) # disks

====
